---------------------------- MODULE Spec2Model ----------------------------
(***************************************************************************)
(* A model of onedrive_validate.py: the name rules, the sanitizer          *)
(* make_safe_name, the collision resolver get_unique_name, the per-entry   *)
(* check_and_maybe_fix and the tree walker validate.                       *)
(*                                                                         *)
(* A name is a sequence of code points (ord(c) of each character), so the  *)
(* rules that the source states on code points are stated here the same    *)
(* way.  The file system is a set of entries (files and directories) with  *)
(* stable identities; symbolic links and operating-system limits on the    *)
(* length of a name are outside the model.                                 *)
(***************************************************************************)
EXTENDS Integers, Sequences, FiniteSets, TLC

VARIABLES
    \* --- the sanitizer harness (specification SpecSan) ---
    san_pc,      \* "off" | "new" | "safe" | "safe2" | "classified"
    name,        \* the base name under test
    safe,        \* make_safe_name(name)
    safe2,       \* make_safe_name(make_safe_name(name))
    cls,         \* the classification of name
    cls_fix,     \* the fix flag the classification was run with
    cls_prefix,  \* the prefix_len the classification was run with
    \* --- the tree walker (specifications Spec and SpecLong) ---
    pc,          \* "off" | "walk" | "dirs" | "files" | "done" | "crashed"
    fs,          \* the file system: entry id -> [parent, name, is_dir]
    fs0,         \* the file system when the run started
    fix,         \* validate's fix argument
    prefix_len,  \* validate's prefix_len argument
    stack,       \* os.walk's directories still to list (paths below root)
    dirpath,     \* the directory os.walk yielded last
    dirnames,    \* its pending subdirectory list
    filenames,   \* its file list
    idx,         \* position in dirnames or filenames
    errors, warnings, renames,   \* validate's totals
    result,      \* validate's return value, -1 while running
    log          \* what happened, in order: listings and checks

sanVars == <<san_pc, name, safe, safe2, cls, cls_fix, cls_prefix>>
walkVars == <<pc, fs, fs0, fix, prefix_len, stack, dirpath, dirnames,
              filenames, idx, errors, warnings, renames, result, log>>
vars == <<sanVars, walkVars>>

---------------------------------------------------------------------------
\* Program constants

MAX_PATH_LEN == 400
MAX_NAME_LEN == 255

\* '"' '*' ':' '<' '>' '?' '/' '\' '|'
FORBIDDEN_CHARS == {34, 42, 58, 60, 62, 63, 47, 92, 124}
\* '#' '%'
PROBLEMATIC_CHARS == {35, 37}

\* CON PRN AUX NUL COM1..COM9 LPT1..LPT9
RESERVED_NAMES ==
    {<<67, 79, 78>>, <<80, 82, 78>>, <<65, 85, 88>>, <<78, 85, 76>>}
    \cup {<<67, 79, 77, 48 + i>> : i \in 1..9}
    \cup {<<76, 80, 84, 48 + i>> : i \in 1..9}

---------------------------------------------------------------------------
\* String helpers (Python's str and os.path operations used by the source)

CharsOf(s) == {s[i] : i \in DOMAIN s}

Take(s, n) == SubSeq(s, 1, IF n < Len(s) THEN n ELSE Len(s))
Drop(s, n) == SubSeq(s, n + 1, Len(s))

\* s[-n:] for n >= 1
LastN(s, n) == IF n >= Len(s) THEN s ELSE SubSeq(s, Len(s) - n + 1, Len(s))

\* s.find(c) + 1: the first position of c in s, 0 when absent
Find(s, c) ==
    LET hits == {i \in DOMAIN s : s[i] = c}
    IN  IF hits = {} THEN 0 ELSE CHOOSE i \in hits : \A j \in hits : i <= j

\* s.rfind(c) + 1: the last position of c in s, 0 when absent
RFind(s, c) ==
    LET hits == {i \in DOMAIN s : s[i] = c}
    IN  IF hits = {} THEN 0 ELSE CHOOSE i \in hits : \A j \in hits : j <= i

\* str.upper(), on the ASCII letters (the only ones the reserved names use)
Upper(s) == [i \in DOMAIN s |-> IF s[i] >= 97 /\ s[i] <= 122 THEN s[i] - 32 ELSE s[i]]

\* s.split('.')[0]
SplitFirstDot(s) ==
    LET d == Find(s, 46)
    IN  IF d = 0 THEN s ELSE SubSeq(s, 1, d - 1)

\* s.rstrip(' .'): the positions from which only spaces and periods follow
\* are cut
rstrip(s) ==
    LET tail == {i \in DOMAIN s : \A j \in i..Len(s) : s[j] \in {32, 46}}
    IN  SubSeq(s, 1, Len(s) - Cardinality(tail))

\* os.path.splitext(p): the extension starts at the last period, unless that
\* period lies before the last '/' or only periods stand between the last
\* '/' and it (leading periods belong to the root).
splitext(p) ==
    LET sepIndex == RFind(p, 47)
        dotIndex == RFind(p, 46)
    IN  IF dotIndex > sepIndex
           /\ \E k \in (sepIndex + 1)..(dotIndex - 1) : p[k] # 46
        THEN [root |-> SubSeq(p, 1, dotIndex - 1), ext |-> SubSeq(p, dotIndex, Len(p))]
        ELSE [root |-> p, ext |-> <<>>]

\* a run of n copies of the character c
Pad(c, n) == [i \in 1..n |-> c]

\* str(n) for n >= 0, as code points
RECURSIVE Digits(_)
Digits(n) ==
    IF n < 10 THEN <<48 + n>> ELSE Digits(n \div 10) \o <<48 + (n % 10)>>

---------------------------------------------------------------------------
\* Rule engine

IsControl(code) == code < 32 \/ (127 <= code /\ code <= 159)

IsZeroWidthOrRtl(code) ==
    \/ (8203 <= code /\ code <= 8207)     \* 0x200B..0x200F
    \/ (8234 <= code /\ code <= 8238)     \* 0x202A..0x202E
    \/ (8288 <= code /\ code <= 8303)     \* 0x2060..0x206F

has_forbidden_chars(s) == CharsOf(s) \cap FORBIDDEN_CHARS
has_problematic_chars(s) == CharsOf(s) \cap PROBLEMATIC_CHARS
has_control_chars(s) == {c \in CharsOf(s) : IsControl(c)}
has_zero_width_or_rtl(s) == {c \in CharsOf(s) : IsZeroWidthOrRtl(c)}

is_reserved_name(s) == Upper(SplitFirstDot(s)) \in RESERVED_NAMES

---------------------------------------------------------------------------
\* Sanitizer

\* lines 59-78: drop control and zero-width characters, replace forbidden
\* and problematic ones by '_'
ReplaceChars(s) ==
    LET kept == SelectSeq(s, LAMBDA c : ~IsControl(c) /\ ~IsZeroWidthOrRtl(c))
    IN  [i \in DOMAIN kept |->
            IF kept[i] \in FORBIDDEN_CHARS \/ kept[i] \in PROBLEMATIC_CHARS
            THEN 95 ELSE kept[i]]

\* lines 80-82
DefuseTilde(s) == IF s # <<>> /\ s[1] = 126 THEN <<95>> \o Drop(s, 1) ELSE s

\* lines 87-89
NonEmpty(s) == IF s = <<>> THEN <<95>> ELSE s

\* lines 91-96
DefuseReserved(s) ==
    LET base == SplitFirstDot(s)
    IN  IF Upper(base) \in RESERVED_NAMES
        THEN base \o <<95, 95>> \o Drop(s, Len(base))
        ELSE s

LimitLength_cutwhole(s) == Take(s, MAX_NAME_LEN)

\* lines 98-106
LimitLength(s) ==
    IF Len(s) > MAX_NAME_LEN
    THEN LET sp == splitext(s)
             allowed_root_len == MAX_NAME_LEN - Len(sp.ext)
         IN  IF allowed_root_len <= 0
             THEN LastN(s, MAX_NAME_LEN)
             ELSE Take(sp.root, allowed_root_len) \o sp.ext
    ELSE s

\* the name as it enters the length step
BeforeLimit(basename) ==
    DefuseReserved(NonEmpty(rstrip(DefuseTilde(ReplaceChars(basename)))))

make_safe_name(basename) == LimitLength(BeforeLimit(basename))

---------------------------------------------------------------------------
\* Classification: the checks of check_and_maybe_fix, lines 135-204.
\* rel_len is len(rel_path), the length of the entry's path below the root.

B2N(b) == IF b THEN 1 ELSE 0

PathTooLong(rel_len, plen) == plen + rel_len > MAX_PATH_LEN
NameTooLong(s) == Len(s) > MAX_NAME_LEN
EndsWithSpaceOrDot(s) == s # <<>> /\ s[Len(s)] \in {32, 46}
StartsWithTilde(s) == s # <<>> /\ s[1] = 126

Classify_pathrename(rel_len, basename, fx, plen) ==
    LET e1 == PathTooLong(rel_len, plen)
        e2 == NameTooLong(basename)
        e3 == has_forbidden_chars(basename) # {}
        e4 == EndsWithSpaceOrDot(basename)
        e5 == is_reserved_name(basename)
        e6 == has_control_chars(basename) # {}
        e7 == has_zero_width_or_rtl(basename) # {}
        w1 == has_problematic_chars(basename) # {}
        w2 == StartsWithTilde(basename)
    IN  [errors   |-> B2N(e1) + B2N(e2) + B2N(e3) + B2N(e4) + B2N(e5) + B2N(e6) + B2N(e7),
         warnings |-> B2N(w1) + B2N(w2),
         rename_needed |->
             e1 \/ e2 \/ e3 \/ e4 \/ e5 \/ e6 \/ e7 \/ (w1 /\ fx) \/ (w2 /\ fx)]

Classify(rel_len, basename, fx, plen) ==
    LET e1 == PathTooLong(rel_len, plen)
        e2 == NameTooLong(basename)
        e3 == has_forbidden_chars(basename) # {}
        e4 == EndsWithSpaceOrDot(basename)
        e5 == is_reserved_name(basename)
        e6 == has_control_chars(basename) # {}
        e7 == has_zero_width_or_rtl(basename) # {}
        w1 == has_problematic_chars(basename) # {}
        w2 == StartsWithTilde(basename)
    IN  [errors   |-> B2N(e1) + B2N(e2) + B2N(e3) + B2N(e4) + B2N(e5) + B2N(e6) + B2N(e7),
         warnings |-> B2N(w1) + B2N(w2),
         rename_needed |->
             e2 \/ e3 \/ e4 \/ e5 \/ e6 \/ e7 \/ (w1 /\ fx) \/ (w2 /\ fx)]

---------------------------------------------------------------------------
\* The file system.  An entry is [parent, name, is_dir]; parent 0 is the
\* scanned root.  A path is the sequence of names leading from the root.

Children(f, d) == {i \in DOMAIN f : f[i].parent = d}
Lookup(f, d, nm) == {i \in Children(f, d) : f[i].name = nm}

\* the id of the directory at path, -1 if there is none
RECURSIVE Resolve(_, _)
Resolve(f, path) ==
    IF path = <<>> THEN 0
    ELSE LET d == Resolve(f, SubSeq(path, 1, Len(path) - 1))
             hit == IF d = -1 THEN {}
                    ELSE {i \in Lookup(f, d, path[Len(path)]) : f[i].is_dir}
         IN  IF hit = {} THEN -1 ELSE CHOOSE i \in hit : TRUE

\* len(os.path.relpath(path, root)): the names and the separators between them
RECURSIVE RelLen(_)
RelLen(path) ==
    IF path = <<>> THEN 0
    ELSE IF Len(path) = 1 THEN Len(path[1])
    ELSE RelLen(SubSeq(path, 1, Len(path) - 1)) + 1 + Len(path[Len(path)])

\* the ids of S in increasing order
RECURSIVE SortedIds(_)
SortedIds(S) ==
    IF S = {} THEN <<>>
    ELSE LET m == CHOOSE x \in S : \A y \in S : x <= y
         IN  <<m>> \o SortedIds(S \ {m})

\* the names of the entries ids, in that order
NamesOfIds(f, ids) == [k \in DOMAIN ids |-> f[ids[k]].name]

\* os.path.exists(os.path.join(dirpath, nm))
Exists(f, dpath, nm) ==
    LET d == Resolve(f, dpath)
    IN  d # -1 /\ Lookup(f, d, nm) # {}

\* os.rename(join(dirpath, old), join(dirpath, new)): fails if the source is
\* missing; replaces an existing file by a file and an existing empty
\* directory by a directory, and fails on any other existing target.
os_rename(f, dpath, old, new) ==
    LET d == Resolve(f, dpath)
        s == IF d = -1 THEN {} ELSE Lookup(f, d, old)
        t == IF d = -1 THEN {} ELSE Lookup(f, d, new)
    IN  IF s = {} THEN [ok |-> FALSE, fs |-> f]
        ELSE LET sid == CHOOSE x \in s : TRUE
             IN  IF t = {} THEN [ok |-> TRUE, fs |-> [f EXCEPT ![sid].name = new]]
                 ELSE LET tid == CHOOSE x \in t : TRUE
                      IN  IF \/ (~f[sid].is_dir /\ ~f[tid].is_dir)
                             \/ (f[sid].is_dir /\ f[tid].is_dir /\ Children(f, tid) = {})
                          THEN [ok |-> TRUE,
                                fs |-> [x \in DOMAIN f \ {tid} |->
                                          IF x = sid THEN [f[x] EXCEPT !.name = new]
                                          ELSE f[x]]]
                          ELSE [ok |-> FALSE, fs |-> f]

---------------------------------------------------------------------------
\* get_unique_name

\* f"{root}_{counter}{ext}"
Suffixed(desired, counter) ==
    LET sp == splitext(desired)
    IN  sp.root \o <<95>> \o Digits(counter) \o sp.ext

\* the while loop of lines 116-119
RECURSIVE UniqueLoop(_, _, _, _, _)
UniqueLoop(f, dpath, desired, candidate, counter) ==
    IF Exists(f, dpath, candidate)
    THEN UniqueLoop(f, dpath, desired, Suffixed(desired, counter), counter + 1)
    ELSE candidate

get_unique_name_nocheck(f, dpath, desired) == desired

get_unique_name(f, dpath, desired) == UniqueLoop(f, dpath, desired, desired, 1)

---------------------------------------------------------------------------
\* check_and_maybe_fix

\* line 209
ShouldRename_always(fx, rename_needed) == rename_needed

ShouldRename(fx, rename_needed) == fx /\ rename_needed

\* The whole call: what it returns (errors, warnings, new_basename,
\* did_rename), the file system it leaves, and whether os.rename raised.
check_and_maybe_fix(f, dpath, basename, is_dir, fx, plen) ==
    LET c == Classify(RelLen(Append(dpath, basename)), basename, fx, plen)
    IN  IF ShouldRename(fx, c.rename_needed)
        THEN LET safe_name == make_safe_name(basename)
                 safe_unique == get_unique_name(f, dpath, safe_name)
             IN  IF safe_unique # basename
                 THEN LET r == os_rename(f, dpath, basename, safe_unique)
                      IN  [errors |-> c.errors, warnings |-> c.warnings,
                           rename_needed |-> c.rename_needed,
                           new_basename |-> IF r.ok THEN safe_unique ELSE basename,
                           did_rename |-> r.ok, fs |-> r.fs, raised |-> ~r.ok]
                 ELSE [errors |-> c.errors, warnings |-> c.warnings,
                       rename_needed |-> c.rename_needed,
                       new_basename |-> basename, did_rename |-> FALSE,
                       fs |-> f, raised |-> FALSE]
        ELSE [errors |-> c.errors, warnings |-> c.warnings,
              rename_needed |-> c.rename_needed,
              new_basename |-> basename, did_rename |-> FALSE,
              fs |-> f, raised |-> FALSE]

---------------------------------------------------------------------------
\* validate: os.walk(root), top-down, with the loop body of lines 231-252

\* the entry of the log for a listing of directory d
ListEvent(d, dpath) ==
    [kind |-> "list", id |-> d, dir |-> dpath, name |-> <<>>, is_dir |-> TRUE,
     errors |-> 0, warnings |-> 0, rename_needed |-> FALSE, did_rename |-> FALSE,
     new_name |-> <<>>]

\* the entry of the log for one call of check_and_maybe_fix
CheckEvent(f, dpath, basename, is_dir, r) ==
    LET d == Resolve(f, dpath)
        hit == IF d = -1 THEN {} ELSE Lookup(f, d, basename)
    IN  [kind |-> "check",
         id |-> IF hit = {} THEN 0 ELSE CHOOSE x \in hit : TRUE,
         dir |-> dpath, name |-> basename, is_dir |-> is_dir,
         errors |-> r.errors, warnings |-> r.warnings,
         rename_needed |-> r.rename_needed, did_rename |-> r.did_rename,
         new_name |-> r.new_basename]

\* line 242: dirnames[i] = new_name
PendingName_stale(d, new_name) == d

PendingName(d, new_name) == new_name

\* os.walk descends into the subdirectories of the directory it yielded, in
\* the order of its (rewritten) list, before it goes on with what was pending
WalkOrder_breadthfirst(subdirs, pending) == pending \o subdirs

WalkOrder(subdirs, pending) == subdirs \o pending

\* line 260
ReturnCode_offbyone(errs) == IF errs > 1 THEN 1 ELSE 0

ReturnCode(errs) == IF errs > 0 THEN 1 ELSE 0

\* os.walk lists the next directory and yields it; a directory that cannot
\* be listed is passed over (onerror is None)
ListDir ==
    /\ pc = "walk"
    /\ stack # <<>>
    /\ LET top == Head(stack)
           d == Resolve(fs, top)
       IN  IF d = -1
           THEN /\ stack' = Tail(stack)
                /\ UNCHANGED <<pc, dirpath, dirnames, filenames, idx, log>>
           ELSE /\ stack' = Tail(stack)
                /\ dirpath' = top
                /\ dirnames' = NamesOfIds(fs, SortedIds({i \in Children(fs, d) : fs[i].is_dir}))
                /\ filenames' = NamesOfIds(fs, SortedIds({i \in Children(fs, d) : ~fs[i].is_dir}))
                /\ idx' = 1
                /\ pc' = "dirs"
                /\ log' = Append(log, ListEvent(d, top))
    /\ UNCHANGED <<fs, fs0, fix, prefix_len, errors, warnings, renames, result, sanVars>>

\* lines 232-242, one iteration
CheckDir ==
    /\ pc = "dirs"
    /\ idx <= Len(dirnames)
    /\ \E d \in {dirnames[idx]} :
       \E r \in {check_and_maybe_fix(fs, dirpath, d, TRUE, fix, prefix_len)} :
           /\ log' = Append(log, CheckEvent(fs, dirpath, d, TRUE, r))
           /\ fs' = r.fs
           /\ IF r.raised
              THEN /\ pc' = "crashed"
                   /\ UNCHANGED <<errors, warnings, renames, dirnames, idx>>
              ELSE /\ errors' = errors + r.errors
                   /\ warnings' = warnings + r.warnings
                   /\ renames' = renames + B2N(r.did_rename)
                   /\ dirnames' = [dirnames EXCEPT ![idx] = PendingName(d, r.new_basename)]
                   /\ idx' = idx + 1
                   /\ pc' = pc
    /\ UNCHANGED <<fs0, fix, prefix_len, stack, dirpath, filenames, result, sanVars>>

\* line 245: the directory loop is over, the file loop starts
StartFiles ==
    /\ pc = "dirs"
    /\ idx > Len(dirnames)
    /\ pc' = "files"
    /\ idx' = 1
    /\ UNCHANGED <<fs, fs0, fix, prefix_len, stack, dirpath, dirnames, filenames,
                   errors, warnings, renames, result, log, sanVars>>

\* lines 245-252, one iteration
CheckFile ==
    /\ pc = "files"
    /\ idx <= Len(filenames)
    /\ \E f \in {filenames[idx]} :
       \E r \in {check_and_maybe_fix(fs, dirpath, f, FALSE, fix, prefix_len)} :
           /\ log' = Append(log, CheckEvent(fs, dirpath, f, FALSE, r))
           /\ fs' = r.fs
           /\ IF r.raised
              THEN /\ pc' = "crashed"
                   /\ UNCHANGED <<errors, warnings, renames, idx>>
              ELSE /\ errors' = errors + r.errors
                   /\ warnings' = warnings + r.warnings
                   /\ renames' = renames + B2N(r.did_rename)
                   /\ idx' = idx + 1
                   /\ pc' = pc
    /\ UNCHANGED <<fs0, fix, prefix_len, stack, dirpath, dirnames, filenames,
                   result, sanVars>>

\* the loop body is over: os.walk takes the subdirectories to visit from
\* dirnames as the body left it
Descend ==
    /\ pc = "files"
    /\ idx > Len(filenames)
    /\ stack' = WalkOrder([k \in DOMAIN dirnames |-> Append(dirpath, dirnames[k])], stack)
    /\ pc' = "walk"
    /\ UNCHANGED <<fs, fs0, fix, prefix_len, dirpath, dirnames, filenames, idx,
                   errors, warnings, renames, result, log, sanVars>>

\* os.walk is exhausted: lines 254-260
Finish ==
    /\ pc = "walk"
    /\ stack = <<>>
    /\ result' = ReturnCode(errors)
    /\ pc' = "done"
    /\ UNCHANGED <<fs, fs0, fix, prefix_len, stack, dirpath, dirnames, filenames,
                   idx, errors, warnings, renames, log, sanVars>>

Next == ListDir \/ CheckDir \/ StartFiles \/ CheckFile \/ Descend \/ Finish

\* The trees a run starts from: up to MaxEntries entries below the root, each
\* in the root or in an earlier directory, siblings with distinct names.
\* A directory is listed in the order of the ids.  The ids are arbitrary:
\* they number the tree level by level, the subdirectories of a directory
\* before its files, and the names are assigned freely, so every order in
\* which a listing can return the subdirectories and the files occurs.

MaxEntries == 3

\* "a" "~a" "#.a" "*.a" "_.a": two compliant names, two that only draw a
\* warning, one with an error; the last three sanitize to the same name
NamePool ==
    {<<97>>, <<126, 97>>, <<35, 46, 97>>, <<42, 46, 97>>, <<95, 46, 97>>}

PrefixLens == {0, MAX_PATH_LEN - 2}

SanOff ==
    /\ san_pc = "off" /\ name = <<>> /\ safe = <<>> /\ safe2 = <<>>
    /\ cls = [errors |-> 0, warnings |-> 0, rename_needed |-> FALSE]
    /\ cls_fix = FALSE /\ cls_prefix = 0

Trees(pool, maxN) ==
    UNION {
        {t \in [1..n -> [parent : 0..(n - 1), name : pool, is_dir : BOOLEAN]] :
            /\ \A k \in 1..n :
                  /\ t[k].parent < k
                  /\ t[k].parent # 0 => t[t[k].parent].is_dir
                  /\ k > 1 => t[k - 1].parent <= t[k].parent
                  /\ (k > 1 /\ t[k - 1].parent = t[k].parent) =>
                        (t[k - 1].is_dir \/ ~t[k].is_dir)
            /\ \A j, k \in 1..n :
                  (j # k /\ t[j].parent = t[k].parent) => t[j].name # t[k].name}
        : n \in 0..maxN}

WalkInit(pool, maxN) ==
    /\ fs \in Trees(pool, maxN)
    /\ fs0 = fs
    /\ fix \in BOOLEAN
    /\ prefix_len \in PrefixLens
    /\ pc = "walk"
    /\ stack = << <<>> >>
    /\ dirpath = <<>> /\ dirnames = <<>> /\ filenames = <<>> /\ idx = 0
    /\ errors = 0 /\ warnings = 0 /\ renames = 0
    /\ result = -1
    /\ log = <<>>
    /\ SanOff

Init == WalkInit(NamePool, MaxEntries)

Spec == Init /\ [][Next]_vars

\* The same walker on names at the length limit: 254 times 'a' and '#',
\* 254 times 'a' and '_', and "cOn." with 251 times 'a' (all 255 long)
MaxLongEntries == 2

LongPool ==
    {Pad(97, MAX_NAME_LEN - 1) \o <<35>>,
     Pad(97, MAX_NAME_LEN - 1) \o <<95>>,
     <<99, 79, 110, 46>> \o Pad(97, MAX_NAME_LEN - 4)}

InitLong == WalkInit(LongPool, MaxLongEntries)

SpecLong == InitLong /\ [][Next]_vars

---------------------------------------------------------------------------
\* The sanitizer harness: one name is drawn, then sanitized, sanitized
\* again and classified.

MaxChunks == 3

\* 'a' ' ' '.' '~' '#' '*' U+0001 U+200B
SingleChars == {97, 32, 46, 126, 35, 42, 1, 8203}

\* runs that bring a name to the length limit and just around it
PadLens == {MAX_NAME_LEN - 4, MAX_NAME_LEN - 1, MAX_NAME_LEN}

\* the building blocks of the names under test: single characters, the
\* reserved word "cOn" and long runs of 'a'
Chunks ==
    {<<c>> : c \in SingleChars} \cup {<<99, 79, 110>>}
    \cup {Pad(97, n) : n \in PadLens}

RECURSIVE NamesOf(_)
NamesOf(k) ==
    IF k = 0 THEN {<<>>}
    ELSE LET shorter == NamesOf(k - 1)
         IN  shorter \cup {n \o c : n \in shorter, c \in Chunks}

\* base names are never empty
TestNames == NamesOf(MaxChunks) \ {<<>>}

SanPrefixLens == {0, MAX_PATH_LEN - 2}

NoCls == [errors |-> 0, warnings |-> 0, rename_needed |-> FALSE]

WalkOff ==
    /\ pc = "off" /\ fs = <<>> /\ fs0 = <<>> /\ fix = FALSE /\ prefix_len = 0
    /\ stack = <<>> /\ dirpath = <<>> /\ dirnames = <<>> /\ filenames = <<>>
    /\ idx = 0 /\ errors = 0 /\ warnings = 0 /\ renames = 0 /\ result = -1
    /\ log = <<>>

SanInit ==
    /\ san_pc = "new"
    /\ name \in TestNames
    /\ safe = <<>> /\ safe2 = <<>>
    /\ cls = NoCls /\ cls_fix = FALSE /\ cls_prefix = 0
    /\ WalkOff

\* safe = make_safe_name(name)
Sanitize ==
    /\ san_pc = "new"
    /\ safe' = make_safe_name(name)
    /\ san_pc' = "safe"
    /\ UNCHANGED <<name, safe2, cls, cls_fix, cls_prefix, walkVars>>

\* safe2 = make_safe_name(safe)
Resanitize ==
    /\ san_pc = "safe"
    /\ safe2' = make_safe_name(safe)
    /\ san_pc' = "safe2"
    /\ UNCHANGED <<name, safe, cls, cls_fix, cls_prefix, walkVars>>

\* the checks of check_and_maybe_fix on an entry directly below the root
ClassifyName ==
    /\ san_pc = "new"
    /\ \E fx \in BOOLEAN, plen \in SanPrefixLens :
          /\ cls' = Classify(Len(name), name, fx, plen)
          /\ cls_fix' = fx
          /\ cls_prefix' = plen
    /\ san_pc' = "classified"
    /\ UNCHANGED <<name, safe, safe2, walkVars>>

SanNext == Sanitize \/ Resanitize \/ ClassifyName

SpecSan == SanInit /\ [][SanNext]_vars

---------------------------------------------------------------------------
\* Properties of the sanitizer and of the classification (SpecSan)

IsPrefixOf(p, s) == Len(p) <= Len(s) /\ SubSeq(s, 1, Len(p)) = p
IsSuffixOf(x, s) == Len(x) <= Len(s) /\ SubSeq(s, Len(s) - Len(x) + 1, Len(s)) = x

\* The rule categories, stated on the characters of a name
ViolatesForbidden(n) == \E i \in DOMAIN n : n[i] \in FORBIDDEN_CHARS
ViolatesDiscouraged(n) == \E i \in DOMAIN n : n[i] \in PROBLEMATIC_CHARS
ViolatesControl(n) ==
    \E i \in DOMAIN n : n[i] < 32 \/ (n[i] >= 127 /\ n[i] <= 159)
ViolatesZeroWidth(n) ==
    \E i \in DOMAIN n :
        \/ (n[i] >= 8203 /\ n[i] <= 8207)
        \/ (n[i] >= 8234 /\ n[i] <= 8238)
        \/ (n[i] >= 8288 /\ n[i] <= 8303)
ViolatesReserved(n) ==
    \E r \in RESERVED_NAMES :
        /\ Len(n) >= Len(r)
        /\ Upper(SubSeq(n, 1, Len(r))) = r
        /\ (Len(n) = Len(r) \/ n[Len(r) + 1] = 46)
ViolatesTrailing(n) == Len(n) > 0 /\ (n[Len(n)] = 32 \/ n[Len(n)] = 46)
ViolatesTilde(n) == Len(n) > 0 /\ n[1] = 126
ViolatesNameLength(n) == Len(n) > MAX_NAME_LEN

\* the number of name-level error categories a name violates
NameErrorCategories(n) ==
    B2N(ViolatesNameLength(n)) + B2N(ViolatesForbidden(n)) + B2N(ViolatesTrailing(n))
    + B2N(ViolatesReserved(n)) + B2N(ViolatesControl(n)) + B2N(ViolatesZeroWidth(n))

\* the number of warning-level categories a name violates
WarningCategories(n) == B2N(ViolatesDiscouraged(n)) + B2N(ViolatesTilde(n))

Compliant(n) == NameErrorCategories(n) = 0 /\ WarningCategories(n) = 0

\* C3, as the claim states it: once a name has been sanitized, (a) a name
\* that violates no rule category came back unchanged and (b) the name-level
\* checks of check_and_maybe_fix find no error in the sanitized name.
C3_SanitizedIsCompliant ==
    san_pc \in {"safe", "safe2"} =>
        /\ (Compliant(name) => safe = name)
        /\ Classify(Len(safe), safe, FALSE, 0).errors = 0

\* C4, as the claim states it: sanitizing the sanitized name changes nothing.
C4_FixedPoint == san_pc = "safe2" => safe2 = safe

\* C5: the sanitized name is never longer than MAX_NAME_LEN.  With n the
\* name as it enters the length step and ext its extension as
\* os.path.splitext splits it: if ext is shorter than MAX_NAME_LEN the
\* result ends with ext and what stands before ext in the result is a
\* prefix of the part of n before ext (and is cut just to the limit); if ext
\* alone reaches MAX_NAME_LEN the result is the last MAX_NAME_LEN
\* characters of n.
C5_LengthInvariant ==
    san_pc = "safe" =>
        LET n == BeforeLimit(name)
            ext == splitext(n).ext
            stem == SubSeq(n, 1, Len(n) - Len(ext))
        IN  /\ Len(safe) <= MAX_NAME_LEN
            /\ Len(ext) < MAX_NAME_LEN =>
                  /\ IsSuffixOf(ext, safe)
                  /\ IsPrefixOf(SubSeq(safe, 1, Len(safe) - Len(ext)), stem)
                  /\ Len(safe) = (IF Len(n) > MAX_NAME_LEN THEN MAX_NAME_LEN ELSE Len(n))
            /\ Len(ext) >= MAX_NAME_LEN =>
                  safe = SubSeq(n, Len(n) - MAX_NAME_LEN + 1, Len(n))

\* C5's case: a name that is too long, with an extension that fits, has
\* been shortened.
C5_Witness ==
    /\ san_pc = "safe"
    /\ Len(BeforeLimit(name)) > MAX_NAME_LEN
    /\ Len(splitext(BeforeLimit(name)).ext) \in 2..(MAX_NAME_LEN - 1)

\* the other case of C5: the extension alone reaches the limit
C5_WitnessLongExtension ==
    /\ san_pc = "safe"
    /\ Len(splitext(BeforeLimit(name)).ext) >= MAX_NAME_LEN

\* C8, as the claim states it: the error count is the number of error-level
\* categories violated (the effective path length among them), the warning
\* count the number of warning-level categories violated, and a rename is
\* needed exactly if an error-level category fired or, with fix requested,
\* a warning-level one.
C8_Original ==
    san_pc = "classified" =>
        LET e == B2N(cls_prefix + Len(name) > MAX_PATH_LEN) + NameErrorCategories(name)
            w == WarningCategories(name)
        IN  /\ cls.errors = e
            /\ cls.warnings = w
            /\ cls.rename_needed = (e > 0 \/ (cls_fix /\ w > 0))

\* C8, amended: the counts are as claimed; a rename is needed exactly if an
\* error-level category other than the effective path length fired or, with
\* fix requested, a warning-level one.
C8_Classification ==
    san_pc = "classified" =>
        LET e == B2N(cls_prefix + Len(name) > MAX_PATH_LEN) + NameErrorCategories(name)
            w == WarningCategories(name)
        IN  /\ cls.errors = e
            /\ cls.warnings = w
            /\ cls.rename_needed = (NameErrorCategories(name) > 0 \/ (cls_fix /\ w > 0))

\* C8's case: a name that violates several error-level categories and a
\* warning-level one at once has been classified.
C8_Witness ==
    /\ san_pc = "classified"
    /\ cls.errors >= 2
    /\ cls.warnings >= 1

\* the case that separates C8 from its amendment: only the path is too long
C8_WitnessPathOnly ==
    /\ san_pc = "classified"
    /\ cls_prefix + Len(name) > MAX_PATH_LEN
    /\ NameErrorCategories(name) = 0 /\ WarningCategories(name) = 0

---------------------------------------------------------------------------
\* Properties of the walker (Spec, SpecLong)

Checks == {k \in DOMAIN log : log[k].kind = "check"}
Lists == {k \in DOMAIN log : log[k].kind = "list"}
ChecksOf(i) == {k \in Checks : log[k].id = i}
ListsOf(i) == {k \in Lists : log[k].id = i}
CheckedBefore(i, k) == \E q \in ChecksOf(i) : q < k

\* what a step adds to the log: a call of check_and_maybe_fix, or a listing
Latest == log'[Len(log')]
NewCheck == Len(log') = Len(log) + 1 /\ Latest.kind = "check"
NewList == Len(log') = Len(log) + 1 /\ Latest.kind = "list"

\* entry e lies below directory d in the tree the run started from
RECURSIVE IsBelow(_, _)
IsBelow(e, d) ==
    /\ e # 0
    /\ (fs0[e].parent = d \/ IsBelow(fs0[e].parent, d))

SubdirsOf(d) == {i \in DOMAIN fs0 : fs0[i].parent = d /\ fs0[i].is_dir}
DirIds == {0} \cup {i \in DOMAIN fs0 : fs0[i].is_dir}

\* the effective path length of a check
EffectiveLen(ev) == prefix_len + RelLen(Append(ev.dir, ev.name))

RECURSIVE SumErrors(_)
SumErrors(k) == IF k = 0 THEN 0 ELSE log[k].errors + SumErrors(k - 1)

\* C1: every call of check_and_maybe_fix is for an entry that was there when
\* the run started and that no earlier call was for; the run is never
\* aborted; and when validate returns, every entry has been checked exactly
\* once.
C1_TraversalComplete ==
    /\ [][NewCheck => (Latest.id \in DOMAIN fs0 /\ ChecksOf(Latest.id) = {})]_vars
    /\ [](pc # "crashed")
    /\ [](pc = "done" => \A i \in DOMAIN fs0 : Cardinality(ChecksOf(i)) = 1)

\* C1's case: a directory was renamed and an entry inside it was checked
\* afterwards.
C1_Witness ==
    /\ pc = "done"
    /\ \E k \in Checks :
          /\ log[k].is_dir /\ log[k].did_rename
          /\ \E q \in Checks : q > k /\ fs0[log[q].id].parent = log[k].id

\* C2: every rename goes to a name that is not in the directory at that
\* moment; it is the sanitized name if that is free, else the first free one
\* of root_1+ext, root_2+ext, ...; the entries of a directory keep distinct
\* names and no entry is lost or moved.
C2_NoCollision ==
    /\ [][(NewCheck /\ Latest.did_rename) =>
            LET taken == {fs[i].name : i \in {j \in DOMAIN fs :
                                fs[j].parent = fs0[Latest.id].parent}}
                s == make_safe_name(Latest.name)
            IN  /\ Latest.new_name \notin taken
                /\ IF s \notin taken
                   THEN Latest.new_name = s
                   ELSE \E c \in 1..(Cardinality(taken) + 1) :
                           /\ Latest.new_name = Suffixed(s, c)
                           /\ \A j \in 1..(c - 1) : Suffixed(s, j) \in taken]_vars
    /\ [](/\ \A i, j \in DOMAIN fs :
                (i # j /\ fs[i].parent = fs[j].parent) => fs[i].name # fs[j].name
          /\ DOMAIN fs = DOMAIN fs0
          /\ \A i \in DOMAIN fs :
                fs[i].parent = fs0[i].parent /\ fs[i].is_dir = fs0[i].is_dir)

\* C2's case: the sanitized name and its first suffixed form were both
\* taken, so the entry got the suffix _2 before its extension.
C2_Witness ==
    \E k \in Checks :
        /\ log[k].did_rename
        /\ splitext(make_safe_name(log[k].name)).ext # <<>>
        /\ log[k].new_name = Suffixed(make_safe_name(log[k].name), 2)

\* C6: without fix nothing is renamed: no step changes the file system, no
\* call reports a rename, the rename total stays 0; and a name whose only
\* violation is a discouraged character gives one warning and no error.
C6_ReportOnly ==
    /\ [](~fix => (fs = fs0 /\ renames = 0))
    /\ [][~fix => fs' = fs]_vars
    /\ [][(~fix /\ NewCheck) =>
            /\ ~Latest.did_rename
            /\ Latest.new_name = Latest.name
            /\ (/\ ViolatesDiscouraged(Latest.name)
                /\ ~ViolatesTilde(Latest.name)
                /\ NameErrorCategories(Latest.name) = 0
                /\ EffectiveLen(Latest) <= MAX_PATH_LEN)
               => (Latest.errors = 0 /\ Latest.warnings = 1)]_vars

\* C6's case: a report-only run is over that met a name with an error and a
\* name with a discouraged character.
C6_Witness ==
    /\ ~fix
    /\ pc = "done"
    /\ \E k \in Checks : NameErrorCategories(log[k].name) > 0
    /\ \E k \in Checks : log[k].errors = 0 /\ log[k].warnings = 1

\* C7: a path that is too long counts as one error of the entry; an entry
\* with no other reason for a rename is not renamed, in either mode; and
\* validate returns 1 if the errors of all the checks add up to more than
\* zero, else 0.
C7_PathLength ==
    /\ [][NewCheck =>
            /\ Latest.errors =
                  B2N(EffectiveLen(Latest) > MAX_PATH_LEN) + NameErrorCategories(Latest.name)
            /\ (/\ NameErrorCategories(Latest.name) = 0
                /\ (~fix \/ WarningCategories(Latest.name) = 0))
               => (~Latest.did_rename /\ fs' = fs)]_vars
    /\ [](pc = "done" =>
            /\ errors = SumErrors(Len(log))
            /\ result = (IF SumErrors(Len(log)) > 0 THEN 1 ELSE 0))

\* C7's case: a fix run is over in which the only error was a path that is
\* too long, of an entry that was not renamed, while another entry was.
C7_Witness ==
    /\ pc = "done"
    /\ fix
    /\ result = 1
    /\ renames > 0
    /\ \A k \in Checks : NameErrorCategories(log[k].name) = 0
    /\ \E k \in Checks : EffectiveLen(log[k]) > MAX_PATH_LEN /\ ~log[k].did_rename

\* C9, as the claim states it: a file directly in D is classified only
\* after every entry below the subdirectories of D has been visited, and a
\* subdirectory is entered only after it was classified.
C9_Original ==
    /\ \A k \in Checks :
          (~log[k].is_dir /\ log[k].id \in DOMAIN fs0) =>
              \A s \in SubdirsOf(fs0[log[k].id].parent) :
                  \A e \in DOMAIN fs0 : IsBelow(e, s) => CheckedBefore(e, k)
    /\ \A k \in Lists : log[k].id # 0 => CheckedBefore(log[k].id, k)

\* C9, amended: for every directory D, the subdirectories of D are
\* classified first, then the files of D, and only then the walker enters
\* the subdirectories of D, each once and under the name its classification
\* left it with, and it finishes the directories below one subdirectory
\* before it enters the next; in the end every directory has been entered.
C9_LevelOrder ==
    /\ [][(NewCheck /\ ~Latest.is_dir /\ Latest.id \in DOMAIN fs0) =>
            \A s \in SubdirsOf(fs0[Latest.id].parent) : ChecksOf(s) # {}]_vars
    /\ [][(NewList /\ Latest.id # 0) =>
            /\ ListsOf(Latest.id) = {}
            /\ \A c \in DOMAIN fs0 :
                  fs0[c].parent = fs0[Latest.id].parent => ChecksOf(c) # {}
            /\ \A q \in ChecksOf(Latest.id) :
                  Latest.dir[Len(Latest.dir)] = log[q].new_name
            /\ \A s \in SubdirsOf(fs0[Latest.id].parent) :
                  ListsOf(s) # {} =>
                      \A e \in DirIds : IsBelow(e, s) => ListsOf(e) # {}]_vars
    /\ [](pc = "done" => \A d \in DirIds : Cardinality(ListsOf(d)) = 1)

\* C9's case: a subdirectory was renamed, then a file beside it was
\* classified, then the subdirectory was entered under its new name.
C9_Witness ==
    \E k1, k2, k3 \in DOMAIN log :
        /\ k1 < k2 /\ k2 < k3
        /\ log[k1].kind = "check" /\ log[k1].is_dir /\ log[k1].did_rename
        /\ log[k2].kind = "check" /\ ~log[k2].is_dir /\ log[k2].dir = log[k1].dir
        /\ log[k3].kind = "list" /\ log[k3].id = log[k1].id

\* C10, as the claim states it: every name a rename writes is at most
\* MAX_NAME_LEN long and has no name-level error, and after a complete fix
\* run no entry whose name had a name-level error still has one.
C10_Original ==
    /\ \A k \in Checks :
          log[k].did_rename =>
              /\ Len(log[k].new_name) <= MAX_NAME_LEN
              /\ NameErrorCategories(log[k].new_name) = 0
    /\ (pc = "done" /\ fix) =>
          \A i \in DOMAIN fs0 :
              (i \in DOMAIN fs /\ NameErrorCategories(fs0[i].name) > 0)
                  => NameErrorCategories(fs[i].name) = 0

===========================================================================
